---- MODULE Spec2Model ----
(***************************************************************************)
(* Parametric geometry generators of qiskit-metal (FluxoniumPocket, Tmon,  *)
(* Frame, Markers, JunctionArray) as a state machine: one component of the *)
(* host design, its options, the position inside its make pass, and the    *)
(* host design's geometry and pin tables the pass writes to.  prior holds   *)
(* how many rows and pins the design already held when the component was   *)
(* constructed, and how many components were built before it.              *)
(*                                                                         *)
(* Lengths are integers in a component-chosen unit; every option value is  *)
(* chosen so that the halves and quarters the code takes are integers.     *)
(* Shapes are kept structurally (the primitive, its vertices, the boolean  *)
(* operations that combined it), so a rigid transform is what it is in the *)
(* code: a map applied to every vertex.  Pin coordinates are floats that   *)
(* went through explicit trigonometry; they are kept in fixed point, one   *)
(* unit = 1/Resolution of a length unit.                                   *)
(***************************************************************************)
EXTENDS Integers, Sequences, FiniteSets, TLC

VARIABLES cls, p, pc, makes, qgeometry, pins, err, prior

vars == <<cls, p, pc, makes, qgeometry, pins, err, prior>>

(***************************************************************************)
(* Bounds of the model.                                                    *)
(***************************************************************************)
\* how many times make may be called on the component
MaxMakes == 2
\* largest array_unit.n_junction tried for JunctionArray
MaxJunctions == 2
\* how many components the design holds at most
MaxComponents == 2

\* fixed-point resolution of the float pin coordinates (1e-6 length unit)
Resolution == 1000 * 1000

Orientations == {0, 90, 180, 270}
Positions == {<<0, 0>>, <<6, 2>>}

(***************************************************************************)
(* qiskit_metal.draw: shapes, primitive builders, boolean combination.     *)
(***************************************************************************)
Shape(op, pts, r, args) == [op |-> op, pts |-> pts, r |-> r, args |-> args]

LineString(pts) == Shape("LineString", pts, 0, <<>>)

box(minx, miny, maxx, maxy) ==
    Shape("Polygon",
          << <<maxx, miny>>, <<maxx, maxy>>, <<minx, maxy>>, <<minx, miny>> >>,
          0, <<>>)

Polygon(pts) == Shape("Polygon", pts, 0, <<>>)

\* draw.Point(x, y).buffer(r): the disc of radius r about (x, y)
buffer(x, y, r) == Shape("Disc", << <<x, y>> >>, r, <<>>)

union(shapes) == Shape("Union", <<>>, 0, shapes)

subtract(a, b) == Shape("Difference", <<>>, 0, <<a, b>>)

\* exact cosine and sine of a multiple of 90 degrees (shapely snaps the
\* float cosine and sine of such an angle to 0 and +-1)
CosDeg(deg) ==
    CASE deg % 360 = 0 -> 1
      [] deg % 360 = 90 -> 0
      [] deg % 360 = 180 -> -1
      [] deg % 360 = 270 -> 0

SinDeg(deg) ==
    CASE deg % 360 = 0 -> 0
      [] deg % 360 = 90 -> 1
      [] deg % 360 = 180 -> 0
      [] deg % 360 = 270 -> -1

RotatePoint(pt, deg) ==
    << pt[1] * CosDeg(deg) - pt[2] * SinDeg(deg),
       pt[1] * SinDeg(deg) + pt[2] * CosDeg(deg) >>

TranslatePoint(pt, xoff, yoff) == << pt[1] + xoff, pt[2] + yoff >>

RECURSIVE rotate(_, _)
\* draw.rotate(shape, deg, origin=(0, 0)): a new shape, every vertex rotated
rotate(s, deg) ==
    Shape(s.op,
          [i \in DOMAIN s.pts |-> RotatePoint(s.pts[i], deg)],
          s.r,
          [i \in DOMAIN s.args |-> rotate(s.args[i], deg)])

RECURSIVE translate(_, _, _)
\* draw.translate(shape, xoff, yoff): a new shape, every vertex shifted
translate(s, xoff, yoff) ==
    Shape(s.op,
          [i \in DOMAIN s.pts |-> TranslatePoint(s.pts[i], xoff, yoff)],
          s.r,
          [i \in DOMAIN s.args |-> translate(s.args[i], xoff, yoff)])

\* draw.rotate / draw.translate of a list of shapes
rotate_all(shapes, deg) == [i \in DOMAIN shapes |-> rotate(shapes[i], deg)]
translate_all(shapes, xoff, yoff) ==
    [i \in DOMAIN shapes |-> translate(shapes[i], xoff, yoff)]

\* draw.rectangle(w, h, xoff, yoff): the w x h box centred at (xoff, yoff)
rectangle(w, h, xoff, yoff) ==
    translate(box(-(w \div 2), -(h \div 2), w \div 2, h \div 2), xoff, yoff)

\* the rigid transform of section 4.1: rotate about (0,0), then translate
Place(s, deg, xoff, yoff) == translate(rotate(s, deg), xoff, yoff)

(***************************************************************************)
(* The host design's tables.                                               *)
(***************************************************************************)
\* one row of the geometry table.  kw is the set of keyword arguments the
\* caller gave; an attribute that was not given holds the host's default.
\* local is the shape as built in the component's local frame, before the
\* placement by orientation and position (kept to state the placement laws).
Entry(kind, name, geom, local, kw, subtract_, width, layer, hfss, cell) ==
    [kind |-> kind, name |-> name, geom |-> geom, local |-> local, kw |-> kw,
     subtract |-> subtract_, width |-> width, layer |-> layer,
     hfss_inductance |-> hfss, gds_cell_name |-> cell]

\* add_qgeometry: the table is a sink, rows are appended
add_qgeometry(table, rows) == table \o rows

PinNamed(ps, name) == {i \in DOMAIN ps : ps[i].name = name}

\* add_pin as a plain dictionary store: a second registration replaces the
\* first and raises nothing
add_pin_overwrite(ps, name, points, width, kw, input_as_norm) ==
    LET pin == [name |-> name, points |-> points, width |-> width,
                kw |-> kw, input_as_norm |-> input_as_norm]
    IN  [pins |-> IF PinNamed(ps, name) # {}
                  THEN [i \in DOMAIN ps |->
                           IF ps[i].name = name THEN pin ELSE ps[i]]
                  ELSE Append(ps, pin),
         err |-> "none"]

\* add_pin: a name already registered raises DuplicatePinError and leaves
\* the table as it was
add_pin(ps, name, points, width, kw, input_as_norm) ==
    IF PinNamed(ps, name) # {}
    THEN [pins |-> ps, err |-> "DuplicatePinError"]
    ELSE [pins |-> Append(ps, [name |-> name, points |-> points,
                               width |-> width, kw |-> kw,
                               input_as_norm |-> input_as_norm]),
          err |-> "none"]

\* the pins of the component under construction: the design keeps one pin
\* dictionary per component, so names collide within a component only
OwnPins == SubSeq(pins, prior.pins + 1, Len(pins))
OtherPins == SubSeq(pins, 1, prior.pins)

\* the rectangle builder rejects a non-positive width or height with a
\* ConfigurationError; dims are the <<width, height>> pairs of the
\* rectangle calls of one sub-step
RectangleRejected(dims) ==
    \E i \in DOMAIN dims : dims[i][1] <= 0 \/ dims[i][2] <= 0

\* an exact coordinate pair as a fixed-point pin coordinate pair
Fix(pt) == << pt[1] * Resolution, pt[2] * Resolution >>

(***************************************************************************)
(* FluxoniumPocket (qlibrary/qubits/fluxonium_pocket.py).                  *)
(***************************************************************************)
\* cos(orientation * 3.14159 / 180) in fixed point.  3.14159 is short of pi
\* by 2.65e-6, so the float results are cos(1.570795) = 1.3268e-6,
\* cos(3.14159) = -0.9999999999965, cos(4.712385) = -3.9804e-6.
CosApprox(deg) ==
    CASE deg % 360 = 0 -> Resolution
      [] deg % 360 = 90 -> 1
      [] deg % 360 = 180 -> -Resolution
      [] deg % 360 = 270 -> -4

\* sin(orientation * 3.14159 / 180) in fixed point: sin(1.570795) =
\* 0.9999999999991, sin(3.14159) = 2.6536e-6, sin(4.712385) = -0.999999999992.
SinApprox(deg) ==
    CASE deg % 360 = 0 -> 0
      [] deg % 360 = 90 -> Resolution
      [] deg % 360 = 180 -> 3
      [] deg % 360 = 270 -> -Resolution

\* qpin_rotate_translate with the two offsets exchanged
qpin_rotate_translate_swapped(o, x) ==
    << x[1] * CosApprox(o.orientation) - x[2] * SinApprox(o.orientation)
         + o.pos_y * Resolution,
       x[1] * SinApprox(o.orientation) + x[2] * CosApprox(o.orientation)
         + o.pos_x * Resolution >>

\* qpin_rotate_translate(x): the pin endpoint of the local point x
qpin_rotate_translate(o, x) ==
    << x[1] * CosApprox(o.orientation) - x[2] * SinApprox(o.orientation)
         + o.pos_x * Resolution,
       x[1] * SinApprox(o.orientation) + x[2] * CosApprox(o.orientation)
         + o.pos_y * Resolution >>

\* the dimensions varied besides the placement: the defaults' proportions in
\* a coarser unit with the line ends either beyond the pocket or exactly on
\* it, and with the line ends beyond the pocket a pad shorter than its
\* circle's diameter, a pad no longer than its circle's radius, a zero
\* fbl_sep, a zero readout pad width, and two other inductances (one with
\* the same L_tot, one with a longer one)
FluxoniumDimensions ==
    LET base == [width |-> 48, height |-> 48, pad_height |-> 10,
                 l_inductance |-> 8, l_ind_per_square |-> 2,
                 fbl_sep |-> 3, ro_pad_width |-> 8]
    IN  { [base EXCEPT !.width = w, !.height = h] :
              w \in {32, 48}, h \in {40, 48} }
        \cup { [base EXCEPT !.pad_height = 6],
               [base EXCEPT !.pad_height = 4],
               [base EXCEPT !.fbl_sep = 0],
               [base EXCEPT !.ro_pad_width = 0],
               [base EXCEPT !.l_inductance = 16, !.l_ind_per_square = 4],
               [base EXCEPT !.l_inductance = 16] }

FluxoniumOptions ==
    { [chip |-> "main", layer |-> 1,
       pos_x |-> pos[1], pos_y |-> pos[2], orientation |-> o,
       width |-> d.width, height |-> d.height,
       pad_gap |-> 4, inductor_width |-> 2, pad_width |-> 2,
       pad_height |-> d.pad_height, pad_radius |-> 4,
       l_width |-> 2, l_arm_length |-> 4,
       l_inductance |-> d.l_inductance,
       l_ind_per_square |-> d.l_ind_per_square, l_fillet |-> 3,
       L_j |-> "16.35nH",
       pocket_width |-> 32, pocket_height |-> 32,
       flux_bias_line_options |->
           [make_fbl |-> f, fbl_sep |-> d.fbl_sep, fbl_height |-> 4,
            cpw_width |-> 2, cpw_gap |-> 4],
       charge_line_options |->
           [make_cl |-> c, cl_sep |-> 2, cpw_width |-> 4, cpw_gap |-> 2],
       readout_line_options |->
           [make_rol |-> r, pad_sep |-> 1, pad_width |-> d.ro_pad_width,
            pad_height |-> 2,
            pad_gap |-> 1, cpw_width |-> 6, cpw_gap |-> 2]] :
      pos \in Positions, o \in Orientations, d \in FluxoniumDimensions,
      f \in BOOLEAN, c \in BOOLEAN, r \in BOOLEAN }

\* the inductor's length with the inductance per square left out
L_tot_unscaled(o) == o.l_inductance * o.l_width

\* L_tot = l_inductance * l_width / ind_per_square
L_tot(o) == (o.l_inductance * o.l_width) \div o.l_ind_per_square

\* the quarter-ring fillet of the inductor meander
poly_seg(o) ==
    LET outer_circle == buffer(0, 0, o.l_fillet + o.l_width \div 2)
        inner_circle == buffer(0, 0, o.l_fillet - o.l_width \div 2)
        circle == subtract(outer_circle, inner_circle)
        semicircle ==
            subtract(circle,
                     rectangle(o.l_fillet + o.l_width \div 2,
                               2 * o.l_fillet + o.l_width,
                               -((o.l_fillet + o.l_width \div 2) \div 2), 0))
    IN  subtract(semicircle,
                 rectangle(2 * o.l_fillet + o.l_width,
                           o.l_fillet + o.l_width \div 2,
                           0, -((o.l_fillet + o.l_width \div 2) \div 2)))

\* the shift of the pad with the circle's radius left out
pad_top_yoff_full(o) == (o.pad_height + o.pad_gap) \div 2

\* make_pocket, line 192: how far the pad is shifted up to become pad_top
pad_top_yoff(o) == (o.pad_height + o.pad_gap - o.pad_radius) \div 2

\* make_pocket, lines 185-228: the shapes in the local frame
pocket_local(o) ==
    LET pad_rect == rectangle(o.pad_width, o.pad_height - o.pad_radius, 0, 0)
        pad_circle ==
            buffer(0, (o.pad_height - o.pad_radius) \div 2, o.pad_radius)
        pad == union(<<pad_rect, pad_circle>>)
        pad_top == translate(pad, 0, pad_top_yoff(o))
        mount_top ==
            translate(rectangle(o.l_arm_length, o.l_width, 0, 0),
                      (o.pad_width + o.l_arm_length) \div 2,
                      L_tot(o) \div 2 + o.l_fillet)
        mount_bot ==
            translate(rectangle(o.l_arm_length, o.l_width, 0, 0),
                      (o.pad_width + o.l_arm_length) \div 2,
                      -(L_tot(o) \div 2) - o.l_fillet)
        seg_top ==
            translate(poly_seg(o), o.l_arm_length + o.pad_width \div 2,
                      L_tot(o) \div 2)
        seg_bot ==
            translate(rotate(poly_seg(o), -90),
                      o.l_arm_length + o.pad_width \div 2,
                      -(L_tot(o) \div 2))
        c == << o.pad_width \div 2 + o.l_arm_length + o.l_fillet,
                L_tot(o) \div 2 >>
        d == << o.pad_width \div 2 + o.l_arm_length + o.l_fillet,
                -(L_tot(o) \div 2) >>
    IN  [rect_jj |-> LineString(<< <<0, -(o.pad_gap \div 2)>>,
                                   <<0, o.pad_gap \div 2>> >>),
         pad_top |-> pad_top,
         pad_bot |-> rotate(pad_top, 180),
         poly_wire_top |-> union(<<mount_top, seg_top>>),
         poly_wire_bot |-> union(<<seg_bot, mount_bot>>),
         inductor |-> LineString(<<c, d>>),
         rect_pk |-> rectangle(o.pocket_width, o.pocket_height, 0, 0)]

\* make_pocket, lines 189-228: the <<width, height>> of its rectangle calls
pocket_rectangles(o) ==
    << << o.pad_width, o.pad_height - o.pad_radius >>,
       << o.l_fillet + o.l_width \div 2, 2 * o.l_fillet + o.l_width >>,
       << 2 * o.l_fillet + o.l_width, o.l_fillet + o.l_width \div 2 >>,
       << o.l_arm_length, o.l_width >>,
       << o.l_arm_length, o.l_width >>,
       << o.pocket_width, o.pocket_height >> >>

\* make_pocket, lines 231-234: the list that is rotated and translated
\* holds poly_wire_top twice and poly_wire_bot not at all, so poly_wire_bot
\* keeps its local-frame value
pocket_placed(o) ==
    LET l == pocket_local(o)
        polys == << l.rect_jj, l.pad_top, l.pad_bot, l.rect_pk,
                    l.poly_wire_top, l.poly_wire_top, l.inductor >>
        placed == translate_all(rotate_all(polys, o.orientation),
                                o.pos_x, o.pos_y)
    IN  [rect_jj |-> placed[1], pad_top |-> placed[2], pad_bot |-> placed[3],
         rect_pk |-> placed[4], poly_wire_top |-> placed[6],
         poly_wire_bot |-> l.poly_wire_bot, inductor |-> placed[7]]

\* make_pocket, lines 238-248: the rows handed to add_qgeometry
pocket_rows(o) ==
    LET l == pocket_local(o)
        g == pocket_placed(o)
    IN  << Entry("poly", "pad_top", g.pad_top, l.pad_top, {}, FALSE, 0, 1, "", ""),
           Entry("poly", "pad_bot", g.pad_bot, l.pad_bot, {}, FALSE, 0, 1, "", ""),
           Entry("poly", "poly_wire_top", g.poly_wire_top, l.poly_wire_top,
                 {}, FALSE, 0, 1, "", ""),
           Entry("poly", "poly_wire_bot", g.poly_wire_bot, l.poly_wire_bot,
                 {}, FALSE, 0, 1, "", ""),
           Entry("poly", "rect_pk", g.rect_pk, l.rect_pk,
                 {"subtract"}, TRUE, 0, 1, "", ""),
           Entry("junction", "inductor", g.inductor, l.inductor,
                 {"width", "hfss_inductance"}, FALSE, o.l_width, 1,
                 ToString(o.l_inductance) \o ".0nH", ""),
           Entry("junction", "rect_jj", g.rect_jj, l.rect_jj,
                 {"width", "hfss_inductance"}, FALSE, o.inductor_width, 1,
                 o.L_j, "") >>

\* make_flux_bias_line, lines 257-264: the corner points and the two paths
fbl_points(o) ==
    LET pf == o.flux_bias_line_options
        xin == o.pad_width \div 2 + o.l_arm_length + pf.fbl_sep
                 + (o.l_width + pf.cpw_width) \div 2
    IN  [a |-> << o.pocket_width \div 2, pf.fbl_height \div 2 >>,
         b |-> << xin, pf.fbl_height \div 2 >>,
         c |-> << xin, -(pf.fbl_height \div 2) >>,
         d |-> << o.pocket_width \div 2, -(pf.fbl_height \div 2) >>,
         e |-> << o.width \div 2, -(pf.fbl_height \div 2) >>]

\* make_flux_bias_line, lines 263-273: both rows are registered as 'path'
fbl_rows(o) ==
    LET pf == o.flux_bias_line_options
        q == fbl_points(o)
        fbl == LineString(<<q.a, q.b, q.c, q.d, q.e>>)
        fbl_gap == LineString(<<q.d, q.e>>)
        segments == translate_all(rotate_all(<<fbl, fbl_gap>>, o.orientation),
                                  o.pos_x, o.pos_y)
    IN  << Entry("path", "path", segments[1], fbl,
                 {"layer", "subtract", "width"}, FALSE, pf.cpw_width, 1, "", ""),
           Entry("path", "path", segments[2], fbl_gap,
                 {"layer", "subtract", "width"}, TRUE,
                 pf.cpw_width + 2 * pf.cpw_gap, 1, "", "") >>

\* the pin given the width of the fbl_gap path instead of the trace
fbl_pin_gap_width(o) ==
    [name |-> "Flux bias line",
     points |-> << qpin_rotate_translate(o, fbl_points(o).d),
                   qpin_rotate_translate(o, fbl_points(o).e) >>,
     width |-> o.flux_bias_line_options.cpw_width
                 + 2 * o.flux_bias_line_options.cpw_gap]

\* the pin given with its two points in the other order (e, d)
fbl_pin_reversed(o) ==
    [name |-> "Flux bias line",
     points |-> << qpin_rotate_translate(o, fbl_points(o).e),
                   qpin_rotate_translate(o, fbl_points(o).d) >>,
     width |-> o.flux_bias_line_options.cpw_width]

\* make_flux_bias_line, lines 276-282: the arguments of add_pin
fbl_pin(o) ==
    [name |-> "Flux bias line",
     points |-> << qpin_rotate_translate(o, fbl_points(o).d),
                   qpin_rotate_translate(o, fbl_points(o).e) >>,
     width |-> o.flux_bias_line_options.cpw_width]

\* make_charge_line, lines 291-292
cl_a(o) == o.height \div 2
cl_b(o) == o.pocket_height \div 2 + o.charge_line_options.cl_sep

\* make_charge_line, lines 294-305
cl_rows(o) ==
    LET pcl == o.charge_line_options
        cl == box(-(pcl.cpw_width \div 2), cl_a(o),
                  pcl.cpw_width \div 2, cl_b(o))
        cl_gap == box(-(pcl.cpw_gap \div 2) - pcl.cpw_width \div 2, cl_a(o),
                      pcl.cpw_gap \div 2 + pcl.cpw_width \div 2,
                      cl_b(o) - pcl.cpw_gap)
        segments == translate_all(rotate_all(<<cl, cl_gap>>, o.orientation),
                                  o.pos_x, o.pos_y)
    IN  << Entry("poly", "cl", segments[1], cl, {}, FALSE, 0, 1, "", ""),
           Entry("poly", "cl_gap", segments[2], cl_gap,
                 {"subtract"}, TRUE, 0, 1, "", "") >>

\* make_charge_line, lines 308-314
cl_pin(o) ==
    [name |-> "Charge line",
     points |-> << qpin_rotate_translate(o, <<0, cl_b(o)>>),
                   qpin_rotate_translate(o, <<0, cl_a(o)>>) >>,
     width |-> o.charge_line_options.cpw_width]

\* make_readout_line, lines 329-330
ro_a(o) == << 0, -(o.height \div 2) >>
ro_b(o) ==
    << 0, -o.readout_line_options.pad_height - o.pocket_height \div 2
            - o.readout_line_options.pad_sep - o.readout_line_options.pad_gap >>

\* make_readout_line, lines 323-324: the <<width, height>> of its rectangle
\* calls
ro_rectangles(o) ==
    LET pr == o.readout_line_options
    IN  << << pr.pad_width, pr.pad_height >>,
           << pr.pad_width + 2 * pr.pad_gap, pr.pad_height + 2 * pr.pad_gap >> >>

\* make_readout_line, lines 323-343: both cpw rows are registered as 'path'
ro_rows(o) ==
    LET pr == o.readout_line_options
        yoff == -((pr.pad_height + o.pocket_height) \div 2)
                  - pr.pad_sep - pr.pad_gap
        pad == translate(rectangle(pr.pad_width, pr.pad_height, 0, 0), 0, yoff)
        cutout_pad ==
            translate(rectangle(pr.pad_width + 2 * pr.pad_gap,
                                pr.pad_height + 2 * pr.pad_gap, 0, 0), 0, yoff)
        cpw_readout == LineString(<<ro_a(o), ro_b(o)>>)
        segments ==
            translate_all(rotate_all(<<pad, cutout_pad, cpw_readout>>,
                                     o.orientation), o.pos_x, o.pos_y)
    IN  << Entry("poly", "pad", segments[1], pad, {}, FALSE, 0, 1, "", ""),
           Entry("poly", "cutout_pad", segments[2], cutout_pad,
                 {"subtract"}, TRUE, 0, 1, "", ""),
           Entry("path", "path", segments[3], cpw_readout,
                 {"layer", "subtract", "width"}, FALSE, pr.cpw_width, 1, "", ""),
           Entry("path", "path", segments[3], cpw_readout,
                 {"layer", "subtract", "width"}, TRUE,
                 pr.cpw_width + 2 * pr.cpw_gap, 1, "", "") >>

\* make_readout_line, lines 346-352
ro_pin(o) ==
    [name |-> "Readout line",
     points |-> << qpin_rotate_translate(o, ro_b(o)),
                   qpin_rotate_translate(o, ro_a(o)) >>,
     width |-> o.readout_line_options.cpw_width]

(***************************************************************************)
(* The make pass.  pc is the position inside make: "idle" before the first *)
(* call, the name of the sub-step about to run, "done" after the return,   *)
(* "raised" after an error left make.                                      *)
(***************************************************************************)
FirstStep(c) ==
    CASE c = "FluxoniumPocket" -> "make_pocket"
      [] c = "Tmon" -> "make_pocket"
      [] c = "Frame" -> "make"
      [] c = "Markers" -> "make"
      [] c = "JunctionArray" -> "make_jj_array"

\* the caller invokes make() on the component (again, once it has returned)
Make ==
    /\ pc \in {"idle", "done", "raised"}
    /\ makes < MaxMakes
    /\ makes' = makes + 1
    /\ pc' = FirstStep(cls)
    /\ err' = "none"
    /\ UNCHANGED <<cls, p, qgeometry, pins, prior>>

\* a rectangle call of the sub-step raised: the error leaves make before
\* the sub-step has registered anything
RaiseConfigurationError ==
    /\ pc' = "raised"
    /\ err' = "ConfigurationError"
    /\ UNCHANGED <<qgeometry, pins>>

\* a sub-step that builds its shapes (dims: its rectangle calls) and then
\* registers rows
RegisterShapes(dims, rows, next) ==
    IF RectangleRejected(dims)
    THEN RaiseConfigurationError
    ELSE /\ qgeometry' = add_qgeometry(qgeometry, rows)
         /\ pc' = next
         /\ UNCHANGED <<pins, err>>

\* a sub-step that catches the error of add_pin, keeps it and goes on with
\* the next sub-step
RegisterLine_continuing(rows, pin, next) ==
    LET res == add_pin(OwnPins, pin.name, pin.points, pin.width,
                       {"points", "width", "input_as_norm"}, TRUE)
    IN  /\ qgeometry' = add_qgeometry(qgeometry, rows)
        /\ pins' = OtherPins \o res.pins
        /\ err' = res.err
        /\ pc' = next

\* a sub-step that registers rows and then one pin with input_as_norm=True:
\* the rows are in the table when add_pin raises
RegisterLine(rows, pin, next) ==
    LET res == add_pin(OwnPins, pin.name, pin.points, pin.width,
                       {"points", "width", "input_as_norm"}, TRUE)
    IN  /\ qgeometry' = add_qgeometry(qgeometry, rows)
        /\ pins' = OtherPins \o res.pins
        /\ err' = res.err
        /\ pc' = IF res.err = "none" THEN next ELSE "raised"

FluxoniumPocket_make_pocket ==
    /\ cls = "FluxoniumPocket"
    /\ pc = "make_pocket"
    /\ RegisterShapes(pocket_rectangles(p), pocket_rows(p), "make_flux_bias_line")
    /\ UNCHANGED <<cls, p, makes, prior>>

FluxoniumPocket_make_flux_bias_line ==
    /\ cls = "FluxoniumPocket"
    /\ pc = "make_flux_bias_line"
    /\ IF p.flux_bias_line_options.make_fbl = TRUE
       THEN RegisterLine(fbl_rows(p), fbl_pin(p), "make_charge_line")
       ELSE /\ pc' = "make_charge_line"
            /\ UNCHANGED <<qgeometry, pins, err>>
    /\ UNCHANGED <<cls, p, makes, prior>>

\* the charge line made whatever make_cl says
FluxoniumPocket_make_charge_line_always ==
    /\ cls = "FluxoniumPocket"
    /\ pc = "make_charge_line"
    /\ RegisterLine(cl_rows(p), cl_pin(p), "make_readout_line")
    /\ UNCHANGED <<cls, p, makes, prior>>

FluxoniumPocket_make_charge_line ==
    /\ cls = "FluxoniumPocket"
    /\ pc = "make_charge_line"
    /\ IF p.charge_line_options.make_cl = TRUE
       THEN RegisterLine(cl_rows(p), cl_pin(p), "make_readout_line")
       ELSE /\ pc' = "make_readout_line"
            /\ UNCHANGED <<qgeometry, pins, err>>
    /\ UNCHANGED <<cls, p, makes, prior>>

FluxoniumPocket_make_readout_line ==
    /\ cls = "FluxoniumPocket"
    /\ pc = "make_readout_line"
    /\ IF p.readout_line_options.make_rol = TRUE
       THEN IF RectangleRejected(ro_rectangles(p))
            THEN RaiseConfigurationError
            ELSE RegisterLine(ro_rows(p), ro_pin(p), "done")
       ELSE /\ pc' = "done"
            /\ UNCHANGED <<qgeometry, pins, err>>
    /\ UNCHANGED <<cls, p, makes, prior>>

(***************************************************************************)
(* Tmon (qlibrary/qubits/tmon.py).                                         *)
(***************************************************************************)
TmonOptions ==
    { [chip |-> "main", layer |-> 1,
       pos_x |-> pos[1], pos_y |-> pos[2], orientation |-> o,
       inductor_width |-> 2, jj_gap |-> 2,
       pad_head_width |-> 4, pad_head_length |-> 12,
       pad_arm_width |-> 4, pad_arm_length |-> 20,
       palm_radius |-> 4, pad_gap |-> 4,
       flux_bias_line_options |->
           [make_fbl |-> f, fbl_sep |-> 2, fbl_height |-> 4, fbl_width |-> 4,
            cpw_width |-> 2, cpw_gap |-> 1]] :
      pos \in Positions, o \in Orientations, f \in BOOLEAN }

\* Tmon.make_pocket, lines 156-174: the shapes in the local frame
tmon_local(o) ==
    LET pad_north == rectangle(o.pad_head_width, o.pad_head_length,
                               0, o.pad_head_length \div 2)
        pad_equator == rectangle(o.pad_arm_length, o.pad_arm_width, 0, 0)
        pad_palm_left ==
            buffer(-(o.pad_arm_length \div 2), 0, o.palm_radius \div 2)
        pad_palm_right ==
            buffer(o.pad_arm_length \div 2, 0, o.palm_radius \div 2)
        pad_gap_north ==
            rectangle(o.pad_head_width + 2 * o.pad_gap,
                      o.pad_head_length + 2 * o.jj_gap,
                      0, o.pad_head_length \div 2)
        pad_gap_equator ==
            rectangle(o.pad_arm_length + 2 * o.pad_gap,
                      o.pad_arm_width + o.pad_gap * 2, 0, 0)
        pad_palm_gap_left ==
            buffer(-(o.pad_arm_length \div 2), 0, (o.palm_radius * 3) \div 2)
        pad_palm_gap_right ==
            buffer(o.pad_arm_length \div 2, 0, (o.palm_radius * 3) \div 2)
    IN  [rect_jj |-> LineString(<< <<0, o.pad_head_length + o.jj_gap>>,
                                   <<0, o.pad_head_length>> >>),
         tmon |-> union(<<pad_north, pad_equator,
                          pad_palm_left, pad_palm_right>>),
         pad_etch |-> union(<<pad_gap_north, pad_gap_equator,
                              pad_palm_gap_left, pad_palm_gap_right>>)]

\* Tmon.make_pocket, lines 179-194
tmon_rows(o) ==
    LET l == tmon_local(o)
        polys == translate_all(
                     rotate_all(<<l.rect_jj, l.tmon, l.pad_etch>>,
                                o.orientation), o.pos_x, o.pos_y)
    IN  << Entry("poly", "tmon", polys[2], l.tmon, {}, FALSE, 0, 1, "", ""),
           Entry("poly", "pad_etch", polys[3], l.pad_etch,
                 {"subtract"}, TRUE, 0, 1, "", ""),
           Entry("junction", "rect_jj", polys[1], l.rect_jj,
                 {"width"}, FALSE, o.inductor_width, 1, "", "") >>

\* Tmon.make_flux_bias_line, lines 214-237: the shapes in the local frame
tmon_fbl_local(o) ==
    LET pfb == o.flux_bias_line_options
        y0 == o.pad_head_length + pfb.fbl_sep
        y1 == o.pad_head_length + pfb.fbl_sep + pfb.fbl_height
        flux_bias_pad ==
            Polygon(<< <<-(pfb.fbl_width \div 2), y0>>,
                       <<pfb.fbl_width \div 2, y0>>,
                       <<pfb.cpw_width \div 2, y1>>,
                       <<-(pfb.cpw_width \div 2), y1>> >>)
        flux_bias_cpwline == rectangle(pfb.cpw_width, pfb.fbl_height, 0, y1)
        flux_bias_pad_gap ==
            Polygon(<< <<-(pfb.fbl_width * 2), y0 - pfb.cpw_gap * 2>>,
                       <<pfb.fbl_width * 2, y0 - pfb.cpw_gap * 2>>,
                       <<pfb.cpw_gap * 4, y1>>,
                       <<-(pfb.cpw_gap * 4), y1>> >>)
        flux_bias_cpwline_gap ==
            rectangle(pfb.cpw_width + pfb.cpw_gap * 4, pfb.fbl_height, 0, y1)
        yport == o.pad_head_length + pfb.fbl_sep + (pfb.fbl_height * 3) \div 2
    IN  [flux_bias_line |-> union(<<flux_bias_pad, flux_bias_cpwline>>),
         flux_bias_line_gap |->
             union(<<flux_bias_pad_gap, flux_bias_cpwline_gap>>),
         port_line |-> LineString(<< <<-pfb.fbl_height, yport>>,
                                     <<pfb.fbl_height, yport>> >>)]

\* Tmon.make_flux_bias_line, lines 239-242
tmon_fbl_placed(o) ==
    LET l == tmon_fbl_local(o)
    IN  translate_all(
            rotate_all(<<l.flux_bias_line, l.flux_bias_line_gap, l.port_line>>,
                       o.orientation), o.pos_x, o.pos_y)

\* Tmon.make_flux_bias_line, lines 244-245
tmon_fbl_rows(o) ==
    LET l == tmon_fbl_local(o)
        objects == tmon_fbl_placed(o)
    IN  << Entry("poly", "flux_bias_line", objects[1], l.flux_bias_line,
                 {}, FALSE, 0, 1, "", ""),
           Entry("poly", "flux_bias_line_gap", objects[2],
                 l.flux_bias_line_gap, {"subtract"}, TRUE, 0, 1, "", "") >>

\* make_pocket, lines 156-166, and make_flux_bias_line, lines 220-232: the
\* <<width, height>> of their rectangle calls
tmon_rectangles(o) ==
    << << o.pad_head_width, o.pad_head_length >>,
       << o.pad_arm_length, o.pad_arm_width >>,
       << o.pad_head_width + 2 * o.pad_gap, o.pad_head_length + 2 * o.jj_gap >>,
       << o.pad_arm_length + 2 * o.pad_gap, o.pad_arm_width + o.pad_gap * 2 >> >>

tmon_fbl_rectangles(o) ==
    LET pf == o.flux_bias_line_options
    IN  << << pf.cpw_width, pf.fbl_height >>,
           << pf.cpw_width + pf.cpw_gap * 4, pf.fbl_height >> >>

Tmon_make_pocket ==
    /\ cls = "Tmon"
    /\ pc = "make_pocket"
    /\ RegisterShapes(tmon_rectangles(p), tmon_rows(p), "make_flux_bias_line")
    /\ UNCHANGED <<cls, p, makes, prior>>

\* lines 250-252: the pin is the placed port_line's coordinates, given with
\* name, points and width only (input_as_norm keeps the host's default)
Tmon_make_flux_bias_line ==
    /\ cls = "Tmon"
    /\ pc = "make_flux_bias_line"
    /\ IF p.flux_bias_line_options.make_fbl = TRUE
       THEN LET port_line == tmon_fbl_placed(p)[3]
                res == add_pin(OwnPins, "flux_bias_line",
                               << Fix(port_line.pts[1]), Fix(port_line.pts[2]) >>,
                               p.flux_bias_line_options.cpw_width,
                               {"points", "width"}, FALSE)
            IN  IF RectangleRejected(tmon_fbl_rectangles(p))
                THEN RaiseConfigurationError
                ELSE /\ qgeometry' = add_qgeometry(qgeometry,
                                                   tmon_fbl_rows(p))
                     /\ pins' = OtherPins \o res.pins
                     /\ err' = res.err
                     /\ pc' = IF res.err = "none" THEN "done"
                                                  ELSE "raised"
       ELSE /\ pc' = "done"
            /\ UNCHANGED <<qgeometry, pins, err>>
    /\ UNCHANGED <<cls, p, makes, prior>>

(***************************************************************************)
(* Frame (qlibrary/terminations/ebeam_frame.py).  Lengths in um.           *)
(***************************************************************************)
\* the literal 4.5 (mm) the four border rectangles are centred at
FrameCentre == 4500

FrameOptions ==
    { [chip |-> "main", layer |-> 1,
       pos_x |-> pos[1], pos_y |-> pos[2], orientation |-> o,
       frame_w |-> sz[1], frame_h |-> sz[2], f_width |-> sz[3]] :
      pos \in Positions, o \in Orientations,
      sz \in { <<9000, 9000, 70>>, <<6000, 9000, 70>>, <<9000, 9000, 0>> } }

\* Frame.make, lines 78-83
frame_local(o) ==
    LET line_top == rectangle(o.frame_w, o.f_width, 0, FrameCentre)
        line_left == rectangle(o.f_width, o.frame_h, FrameCentre, 0)
        line_right == rectangle(o.f_width, o.frame_h, -FrameCentre, 0)
        line_bottom == rectangle(o.frame_w, o.f_width, 0, -FrameCentre)
    IN  union(<<line_top, line_left, line_right, line_bottom>>)

\* Frame.make, lines 86-97
frame_rows(o) ==
    LET polys == translate_all(rotate_all(<<frame_local(o)>>, o.orientation),
                               o.pos_x, o.pos_y)
    IN  << Entry("poly", "frame", polys[1], frame_local(o),
                 {"layer"}, FALSE, 0, o.layer, "", "") >>

\* Frame.make, lines 78-81: the <<width, height>> of its rectangle calls
frame_rectangles(o) ==
    << << o.frame_w, o.f_width >>, << o.f_width, o.frame_h >>,
       << o.f_width, o.frame_h >>, << o.frame_w, o.f_width >> >>

\* Frame.make emptying the geometry table before it registers its row
Frame_make_clearing ==
    /\ cls = "Frame"
    /\ pc = "make"
    /\ IF RectangleRejected(frame_rectangles(p))
       THEN RaiseConfigurationError
       ELSE /\ qgeometry' = frame_rows(p)
            /\ pc' = "done"
            /\ UNCHANGED <<pins, err>>
    /\ UNCHANGED <<cls, p, makes, prior>>

Frame_make ==
    /\ cls = "Frame"
    /\ pc = "make"
    /\ RegisterShapes(frame_rectangles(p), frame_rows(p), "done")
    /\ UNCHANGED <<cls, p, makes, prior>>

(***************************************************************************)
(* Markers (qlibrary/terminations/ebeam_marker.py).  Lengths in um.        *)
(***************************************************************************)
MarkersOptions ==
    { [chip |-> "main", layer |-> 1,
       pos_x |-> pos[1], pos_y |-> pos[2], orientation |-> o,
       marker_sep |-> 40, marker_w |-> 20, marker_h |-> 20,
       markers_gap |-> 200] :
      pos \in Positions, o \in Orientations }

\* the markers with marker_4 built at marker_3's centre
markers_local_repeated(o) ==
    LET cx == o.pos_x \div 2
        cy == o.pos_y \div 2
        marker_1 == rectangle(o.marker_w, o.marker_h,
                              cx + o.marker_sep, cy + o.marker_sep)
        marker_2 == rectangle(o.marker_w, o.marker_h,
                              cx - o.marker_sep, cy + o.marker_sep)
        marker_3 == rectangle(o.marker_w, o.marker_h,
                              cx + o.marker_sep, cy - o.marker_sep)
    IN  [markers |-> union(<<marker_1, marker_2, marker_3, marker_3>>),
         markers_pk |-> rectangle(o.markers_gap, o.markers_gap, cx, cy)]

\* Markers.make, lines 92-100: the rectangles are built around (pos/2)
markers_local(o) ==
    LET cx == o.pos_x \div 2
        cy == o.pos_y \div 2
        marker_1 == rectangle(o.marker_w, o.marker_h,
                              cx + o.marker_sep, cy + o.marker_sep)
        marker_2 == rectangle(o.marker_w, o.marker_h,
                              cx - o.marker_sep, cy + o.marker_sep)
        marker_3 == rectangle(o.marker_w, o.marker_h,
                              cx + o.marker_sep, cy - o.marker_sep)
        marker_4 == rectangle(o.marker_w, o.marker_h,
                              cx - o.marker_sep, cy - o.marker_sep)
    IN  [markers |-> union(<<marker_1, marker_2, marker_3, marker_4>>),
         markers_pk |-> rectangle(o.markers_gap, o.markers_gap, cx, cy)]

\* Markers.make, lines 103-116: rotated, then translated by (pos/2)
markers_rows(o) ==
    LET l == markers_local(o)
        polys == translate_all(
                     rotate_all(<<l.markers, l.markers_pk>>, o.orientation),
                     o.pos_x \div 2, o.pos_y \div 2)
    IN  << Entry("poly", "markers", polys[1], l.markers,
                 {"layer"}, FALSE, 0, o.layer, "", ""),
           Entry("poly", "markers_pk", polys[2], l.markers_pk,
                 {"subtract", "layer"}, TRUE, 0, o.layer, "", "") >>

\* Markers.make, lines 92-100: the <<width, height>> of its rectangle calls
markers_rectangles(o) ==
    << << o.marker_w, o.marker_h >>, << o.marker_w, o.marker_h >>,
       << o.marker_w, o.marker_h >>, << o.marker_w, o.marker_h >>,
       << o.markers_gap, o.markers_gap >> >>

Markers_make ==
    /\ cls = "Markers"
    /\ pc = "make"
    /\ RegisterShapes(markers_rectangles(p), markers_rows(p), "done")
    /\ UNCHANGED <<cls, p, makes, prior>>

(***************************************************************************)
(* JunctionArray (tutorials/Fluxonium/Calibraitions_GDS/junction_array.py).*)
(***************************************************************************)
JunctionArrayOptions ==
    { [chip |-> "main", layer |-> 1,
       pos_x |-> pos[1], pos_y |-> pos[2], orientation |-> o,
       ground_gap_x |-> 20, ground_gap_y |-> 20,
       array_unit |->
           [array_pad_x |-> 20, array_pad_y |-> 50, array_gap_y |-> 10,
            junction_thickness |-> 10, n_junction |-> n]] :
      pos \in Positions, o \in Orientations, n \in 0..MaxJunctions }

\* lines 74-75: the pad in the local frame
jj_pad_local(o) ==
    box(-(o.array_unit.array_pad_x \div 2), -(o.array_unit.array_pad_y \div 2),
        o.array_unit.array_pad_x \div 2, o.array_unit.array_pad_y \div 2)

\* lines 77-78: the pad is placed before the loop shifts it
jj_pad_placed(o) ==
    translate(rotate(jj_pad_local(o), o.orientation), o.pos_x, o.pos_y)

\* lines 81-83: the junction line in the local frame
rect_jj_local(o) ==
    translate(LineString(<< <<0, 0>>, <<0, o.array_unit.array_gap_y>> >>),
              0, o.array_unit.array_pad_y \div 2)

\* the rows of loop iteration idx when the shift is applied to the pad the
\* iteration before left behind, not to the base pad
jj_iteration_rows_accumulating(o, idx, junc_yoff) ==
    LET yoff == (junc_yoff * (idx + 1)) \div 2
        pad_junc == translate(jj_pad_placed(o), 0, yoff)
        sim_junction ==
            translate(rotate(translate(rect_jj_local(o), 0, junc_yoff),
                             o.orientation), o.pos_x, o.pos_y)
        pad_row == Entry("poly", "jj_pad_" \o ToString(idx), pad_junc,
                         translate(jj_pad_local(o), 0, yoff),
                         {"layer", "chip"}, FALSE, 0, o.layer, "", "")
        jj_row == Entry("junction", "rect_jj_" \o ToString(idx), sim_junction,
                        translate(rect_jj_local(o), 0, junc_yoff),
                        {"width", "chip", "gds_cell_name"}, FALSE,
                        o.array_unit.junction_thickness, 1, "",
                        "FakeJunction_0" \o ToString(idx + 1))
    IN  IF idx # o.array_unit.n_junction THEN <<pad_row, jj_row>>
                                         ELSE <<pad_row>>

\* lines 92-110: the rows of loop iteration idx, at shift junc_yoff
jj_iteration_rows(o, idx, junc_yoff) ==
    LET pad_junc == translate(jj_pad_placed(o), 0, junc_yoff)
        sim_junction ==
            translate(rotate(translate(rect_jj_local(o), 0, junc_yoff),
                             o.orientation), o.pos_x, o.pos_y)
        pad_row == Entry("poly", "jj_pad_" \o ToString(idx), pad_junc,
                         translate(jj_pad_local(o), 0, junc_yoff),
                         {"layer", "chip"}, FALSE, 0, o.layer, "", "")
        jj_row == Entry("junction", "rect_jj_" \o ToString(idx), sim_junction,
                        translate(rect_jj_local(o), 0, junc_yoff),
                        {"width", "chip", "gds_cell_name"}, FALSE,
                        o.array_unit.junction_thickness, 1, "",
                        "FakeJunction_0" \o ToString(idx + 1))
    IN  IF idx # o.array_unit.n_junction THEN <<pad_row, jj_row>>
                                         ELSE <<pad_row>>

RECURSIVE jj_loop(_, _, _)
\* lines 89-122: for idx in range(n_junction + 1), junc_yoff growing by
\* array_pad_y + array_gap_y each iteration
jj_loop(o, idx, junc_yoff) ==
    IF idx >= o.array_unit.n_junction + 1
    THEN <<>>
    ELSE jj_iteration_rows(o, idx, junc_yoff)
           \o jj_loop(o, idx + 1,
                      junc_yoff + o.array_unit.array_pad_y
                        + o.array_unit.array_gap_y)

\* make_buffer_ground with the gaps between the pads left out of the height
ground_rows_no_gaps(o) ==
    LET parray == o.array_unit
        ground_width == parray.array_pad_x + 2 * o.ground_gap_x
        ground_height == (parray.n_junction + 1) * parray.array_pad_y
                           + 2 * o.ground_gap_y
        ground_bottom_y == -(parray.array_pad_y \div 2) - o.ground_gap_y
        ground_etch == box(-(ground_width \div 2), ground_bottom_y,
                           ground_width \div 2, ground_bottom_y + ground_height)
    IN  << Entry("poly", "ground_etch",
                 translate(rotate(ground_etch, o.orientation),
                           o.pos_x, o.pos_y),
                 ground_etch, {"layer", "chip", "subtract"}, TRUE, 0,
                 o.layer, "", "") >>

\* make_buffer_ground, lines 132-148
ground_rows(o) ==
    LET parray == o.array_unit
        ground_width == parray.array_pad_x + 2 * o.ground_gap_x
        ground_height == (parray.n_junction + 1) * parray.array_pad_y
                           + parray.n_junction * parray.array_gap_y
                           + 2 * o.ground_gap_y
        ground_bottom_y == -(parray.array_pad_y \div 2) - o.ground_gap_y
        ground_etch == box(-(ground_width \div 2), ground_bottom_y,
                           ground_width \div 2, ground_bottom_y + ground_height)
    IN  << Entry("poly", "ground_etch",
                 translate(rotate(ground_etch, o.orientation),
                           o.pos_x, o.pos_y),
                 ground_etch, {"layer", "chip", "subtract"}, TRUE, 0,
                 o.layer, "", "") >>

JunctionArray_make_jj_array ==
    /\ cls = "JunctionArray"
    /\ pc = "make_jj_array"
    /\ RegisterShapes(<<>>, jj_loop(p, 0, 0), "make_buffer_ground")
    /\ UNCHANGED <<cls, p, makes, prior>>

JunctionArray_make_buffer_ground ==
    /\ cls = "JunctionArray"
    /\ pc = "make_buffer_ground"
    /\ RegisterShapes(<<>>, ground_rows(p), "done")
    /\ UNCHANGED <<cls, p, makes, prior>>

(***************************************************************************)
(* The specification.                                                      *)
(***************************************************************************)
Classes == {"FluxoniumPocket", "Tmon", "Frame", "Markers", "JunctionArray"}

OptionsOf(c) ==
    CASE c = "FluxoniumPocket" -> FluxoniumOptions
      [] c = "Tmon" -> TmonOptions
      [] c = "Frame" -> FrameOptions
      [] c = "Markers" -> MarkersOptions
      [] c = "JunctionArray" -> JunctionArrayOptions

\* a component constructed with its options; make has not run
Init ==
    /\ cls \in Classes
    /\ p \in OptionsOf(cls)
    /\ pc = "idle"
    /\ makes = 0
    /\ qgeometry = <<>>
    /\ pins = <<>>
    /\ err = "none"
    /\ prior = [rows |-> 0, pins |-> 0, comps |-> 0]

Next ==
    \/ Make
    \/ FluxoniumPocket_make_pocket
    \/ FluxoniumPocket_make_flux_bias_line
    \/ FluxoniumPocket_make_charge_line
    \/ FluxoniumPocket_make_readout_line
    \/ Tmon_make_pocket
    \/ Tmon_make_flux_bias_line
    \/ JunctionArray_make_jj_array
    \/ JunctionArray_make_buffer_ground
    \/ Frame_make
    \/ Markers_make

Spec == Init /\ [][Next]_vars

(***************************************************************************)
(* A design of several components: once make has returned or raised, the   *)
(* host constructs the next component on the same design; the tables keep  *)
(* the earlier components' entries.                                        *)
(***************************************************************************)
\* the options tried for the components of a design: one placement, every
\* feeder line made or none, one junction
DesignOptions(c) ==
    { o \in OptionsOf(c) :
        /\ o.orientation = 90
        /\ << o.pos_x, o.pos_y >> = << 6, 2 >>
        /\ c = "FluxoniumPocket" =>
               /\ o.width = 48 /\ o.height = 48 /\ o.pad_height = 10
               /\ o.l_inductance = 8 /\ o.l_ind_per_square = 2
               /\ o.flux_bias_line_options.fbl_sep = 3
               /\ o.readout_line_options.pad_width = 8
               /\ o.flux_bias_line_options.make_fbl
                    = o.charge_line_options.make_cl
               /\ o.charge_line_options.make_cl
                    = o.readout_line_options.make_rol
        /\ c = "Frame" => (o.frame_w = 9000 /\ o.f_width = 70)
        /\ c = "JunctionArray" => o.array_unit.n_junction = 1 }

DesignInit ==
    /\ cls \in Classes
    /\ p \in DesignOptions(cls)
    /\ pc = "idle"
    /\ makes = 0
    /\ qgeometry = <<>>
    /\ pins = <<>>
    /\ err = "none"
    /\ prior = [rows |-> 0, pins |-> 0, comps |-> 0]

\* the host constructs another component on the design
NewComponent ==
    /\ pc \in {"done", "raised"}
    /\ prior.comps + 1 < MaxComponents
    /\ \E c \in Classes : \E o \in DesignOptions(c) :
           /\ cls' = c
           /\ p' = o
    /\ prior' = [rows |-> Len(qgeometry), pins |-> Len(pins),
                 comps |-> prior.comps + 1]
    /\ pc' = "idle"
    /\ makes' = 0
    /\ err' = "none"
    /\ UNCHANGED <<qgeometry, pins>>

DesignNext ==
    \/ Make
    \/ FluxoniumPocket_make_pocket
    \/ FluxoniumPocket_make_flux_bias_line
    \/ FluxoniumPocket_make_charge_line
    \/ FluxoniumPocket_make_readout_line
    \/ Tmon_make_pocket
    \/ Tmon_make_flux_bias_line
    \/ JunctionArray_make_jj_array
    \/ JunctionArray_make_buffer_ground
    \/ Frame_make
    \/ Markers_make
    \/ NewComponent

SpecDesign == DesignInit /\ [][DesignNext]_vars

(***************************************************************************)
(* Measures used to state the properties.                                  *)
(***************************************************************************)
MinOf(S) == CHOOSE x \in S : \A y \in S : x <= y
MaxOf(S) == CHOOSE x \in S : \A y \in S : x >= y

\* the bounding box <<minx, miny, maxx, maxy>> of a polygon
BBox(s) ==
    LET xs == {s.pts[i][1] : i \in DOMAIN s.pts}
        ys == {s.pts[i][2] : i \in DOMAIN s.pts}
    IN  << MinOf(xs), MinOf(ys), MaxOf(xs), MaxOf(ys) >>

\* twice the centre of a polygon's bounding box (kept doubled: no halving)
Centre2(s) == << BBox(s)[1] + BBox(s)[3], BBox(s)[2] + BBox(s)[4] >>

RECURSIVE SumOver(_, _)
SumOver(S, f) ==
    IF S = {} THEN 0
    ELSE LET x == CHOOSE y \in S : TRUE
         IN  f[x] + SumOver(S \ {x}, f)

\* the area of a union of axis-parallel rectangles: the cells of the grid
\* drawn through every rectangle edge that lie inside some rectangle
UnionArea(s) ==
    LET boxes == {BBox(s.args[i]) : i \in DOMAIN s.args}
        xs == {b[1] : b \in boxes} \cup {b[3] : b \in boxes}
        ys == {b[2] : b \in boxes} \cup {b[4] : b \in boxes}
        nx(a) == MinOf({b \in xs : b > a})
        ny(a) == MinOf({b \in ys : b > a})
        cells == {c \in (xs \ {MaxOf(xs)}) \X (ys \ {MaxOf(ys)}) :
                    \E b \in boxes :
                        /\ b[1] <= c[1] /\ nx(c[1]) <= b[3]
                        /\ b[2] <= c[2] /\ ny(c[2]) <= b[4]}
    IN  SumOver(cells,
                [c \in cells |-> (nx(c[1]) - c[1]) * (ny(c[2]) - c[2])])

\* the rows of one category
Rows(kind) == {i \in DOMAIN qgeometry : qgeometry[i].kind = kind}

\* row e sits where one rotation by orientation about (0,0) followed by one
\* translation by (pos_x, pos_y) puts its local-frame shape
Placed(e) == e.geom = Place(e.local, p.orientation, p.pos_x, p.pos_y)

\* the exact rigid transform of a local point, as a pin coordinate pair
ExactPin(o, x) ==
    Fix(TranslatePoint(RotatePoint(x, o.orientation), o.pos_x, o.pos_y))

\* the squared distance of a pin point from the placed origin of the
\* component, in 1e-3 length units
Dist2(o, pt) ==
    LET dx == (pt[1] - o.pos_x * Resolution) \div 1000
        dy == (pt[2] - o.pos_y * Resolution) \div 1000
    IN  dx * dx + dy * dy

FirstPassDone == pc = "done" /\ makes = 1

(***************************************************************************)
(* C1: in FluxoniumPocket.make_pocket every registered shape (pad_top,     *)
(* pad_bot, poly_wire_top, poly_wire_bot, rect_pk, inductor, rect_jj) has  *)
(* had the same rotation by orientation about (0,0) and then the same      *)
(* translation by (pos_x, pos_y) applied, so relative geometry is kept.    *)
(* The code leaves poly_wire_bot out of the transformed list.              *)
(***************************************************************************)
PocketNames == {"pad_top", "pad_bot", "poly_wire_top", "poly_wire_bot",
                "rect_pk", "inductor", "rect_jj"}

C1_PocketShapesPlaced ==
    cls = "FluxoniumPocket" =>
        \A i \in DOMAIN qgeometry :
            qgeometry[i].name \in PocketNames => Placed(qgeometry[i])

(***************************************************************************)
(* C2: in every component's make each registered shape is its local-frame  *)
(* shape after exactly one rotation about (0,0) by orientation followed by *)
(* exactly one translation by (pos_x, pos_y), nothing before and nothing   *)
(* after.  JunctionArray shifts the placed pad again, Markers translates   *)
(* by (pos_x/2, pos_y/2), FluxoniumPocket never places poly_wire_bot.      *)
(***************************************************************************)
C2_EveryShapePlacedOnce ==
    \A i \in DOMAIN qgeometry : Placed(qgeometry[i])

(***************************************************************************)
(* C3: after a make call, with any feature flags, no two rows the          *)
(* component registered in one category share a name.  FluxoniumPocket     *)
(* registers every path row under the name 'path'.                         *)
(***************************************************************************)
C3_NamesUniquePerCategory ==
    makes <= 1 =>
        \A i, j \in DOMAIN qgeometry :
            (i # j /\ qgeometry[i].kind = qgeometry[j].kind)
                => qgeometry[i].name # qgeometry[j].name

(***************************************************************************)
(* C4: registering a pin under a name the component already holds fails    *)
(* with DuplicatePinError and leaves the first registration (points, width *)
(* and flag) as it was; no step ever changes or drops a registered pin.    *)
(***************************************************************************)
\* the pin name the sub-step at pc registers when it runs, "" when none
PinOfStep ==
    CASE cls = "FluxoniumPocket" /\ pc = "make_flux_bias_line"
           /\ p.flux_bias_line_options.make_fbl -> "Flux bias line"
      [] cls = "FluxoniumPocket" /\ pc = "make_charge_line"
           /\ p.charge_line_options.make_cl -> "Charge line"
      [] cls = "FluxoniumPocket" /\ pc = "make_readout_line"
           /\ p.readout_line_options.make_rol -> "Readout line"
      [] cls = "Tmon" /\ pc = "make_flux_bias_line"
           /\ p.flux_bias_line_options.make_fbl -> "flux_bias_line"
      [] OTHER -> ""

C4_DuplicatePinRejected ==
    [][ /\ (PinOfStep # "" /\ PinNamed(pins, PinOfStep) # {})
            => (err' = "DuplicatePinError" /\ pins' = pins)
        /\ \A i \in DOMAIN pins : i \in DOMAIN pins' /\ pins'[i] = pins[i]
      ]_vars

C4_Witness ==
    /\ err = "DuplicatePinError"
    /\ makes = 2
    /\ Len(pins) = 1
    /\ pins[1].name = "Flux bias line"
    /\ pins[1].points = fbl_pin(p).points

(***************************************************************************)
(* C5: a Frame with frame_w = frame_h = 9mm, f_width = 70um at orientation *)
(* 0, position (0,0) registers exactly one poly row, frame, of area        *)
(* 9mm*70um*2 + 9mm*70um*2 - 4*(70um)^2.  The code centres the borders on  *)
(* the frame edges, so each corner overlap is (f_width/2)^2 only.          *)
(***************************************************************************)
IsDefaultFrame ==
    /\ cls = "Frame"
    /\ p.frame_w = 9000 /\ p.frame_h = 9000 /\ p.f_width = 70
    /\ p.orientation = 0 /\ p.pos_x = 0 /\ p.pos_y = 0

C5_FrameArea ==
    (IsDefaultFrame /\ FirstPassDone) =>
        /\ Len(qgeometry) = 1
        /\ qgeometry[1].kind = "poly"
        /\ qgeometry[1].name = "frame"
        /\ UnionArea(qgeometry[1].geom)
             = 9000 * 70 * 2 + 9000 * 70 * 2 - 4 * (70 * 70)

(***************************************************************************)
(* C6: Markers built with the default options registers exactly two poly   *)
(* rows: markers, the union of exactly 4 marker_w x marker_h rectangles,   *)
(* not subtracted, and markers_pk with subtract=True; the four marker      *)
(* centres are at (+-marker_sep, +-marker_sep) relative to                 *)
(* (pos_x/2, pos_y/2).  The centres are those of the rectangles as built   *)
(* (for every tried position) and, at the default placement, of the        *)
(* registered shape.                                                       *)
(***************************************************************************)
IsDefaultPlacement == p.orientation = 0 /\ p.pos_x = 0 /\ p.pos_y = 0

\* twice the four centres (+-marker_sep, +-marker_sep) about (pos/2)
MarkerCentres2 ==
    { << p.pos_x + 2 * sx * p.marker_sep, p.pos_y + 2 * sy * p.marker_sep >> :
        sx \in {-1, 1}, sy \in {-1, 1} }

\* s is the union of exactly 4 marker_w x marker_h rectangles at the centres
FourMarkers(s) ==
    /\ s.op = "Union"
    /\ Len(s.args) = 4
    /\ \A k \in 1..4 :
          /\ s.args[k].op = "Polygon"
          /\ BBox(s.args[k])[3] - BBox(s.args[k])[1] = p.marker_w
          /\ BBox(s.args[k])[4] - BBox(s.args[k])[2] = p.marker_h
    /\ {Centre2(s.args[k]) : k \in 1..4} = MarkerCentres2

OnlyFbl ==
    /\ cls = "FluxoniumPocket"
    /\ p.flux_bias_line_options.make_fbl
    /\ ~p.charge_line_options.make_cl
    /\ ~p.readout_line_options.make_rol

C7_OnlyFluxBiasPin ==
    (OnlyFbl /\ pc \in {"done", "raised"} /\ err # "ConfigurationError") =>
        /\ Len(pins) = 1
        /\ pins[1].name = "Flux bias line"
        /\ pins[1].width = p.flux_bias_line_options.cpw_width

C7_Witness ==
    /\ OnlyFbl
    /\ FirstPassDone
    /\ Len(pins) = 1
    /\ p.flux_bias_line_options.cpw_width # p.flux_bias_line_options.cpw_gap

(***************************************************************************)
(* C8: qpin_rotate_translate is the affine map that draw.rotate followed   *)
(* by draw.translate applies to the shapes, so every pin endpoint          *)
(* coincides with the placed endpoint it was taken from (the Flux bias     *)
(* line pin with the ends of the registered fbl_gap path).  The code       *)
(* converts degrees with 3.14159 instead of pi, so at 90, 180 and 270      *)
(* degrees the pin is off the placed path.                                 *)
(***************************************************************************)
\* the local-frame points a pin is taken from
LocalPinPoints(name) ==
    CASE name = "Flux bias line" -> << fbl_points(p).d, fbl_points(p).e >>
      [] name = "Charge line" -> << <<0, cl_b(p)>>, <<0, cl_a(p)>> >>
      [] name = "Readout line" -> << ro_b(p), ro_a(p) >>
      [] name = "flux_bias_line" -> tmon_fbl_local(p).port_line.pts

C8_PinsOnPlacedShapes ==
    cls = "FluxoniumPocket" =>
        \A i \in DOMAIN pins :
            /\ pins[i].points = << ExactPin(p, LocalPinPoints(pins[i].name)[1]),
                                   ExactPin(p, LocalPinPoints(pins[i].name)[2]) >>
            /\ pins[i].name = "Flux bias line" =>
                  \E j \in Rows("path") :
                      /\ qgeometry[j].subtract
                      /\ Len(qgeometry[j].geom.pts) = 2
                      /\ pins[i].points = << Fix(qgeometry[j].geom.pts[1]),
                                             Fix(qgeometry[j].geom.pts[2]) >>

(***************************************************************************)
(* C9: with orientation = 0 the transform is the identity rotation: every  *)
(* pin endpoint is exactly (x + pos_x, y + pos_y) of its local point       *)
(* (x, y), and with pos_x = pos_y = 0 as well every pin endpoint and every *)
(* registered shape equals its local-frame value.                          *)
(***************************************************************************)
C9_ZeroOrientationIdentity ==
    p.orientation = 0 =>
        /\ \A i \in DOMAIN pins :
              pins[i].points =
                  << Fix(TranslatePoint(LocalPinPoints(pins[i].name)[1],
                                        p.pos_x, p.pos_y)),
                     Fix(TranslatePoint(LocalPinPoints(pins[i].name)[2],
                                        p.pos_x, p.pos_y)) >>
        /\ (p.pos_x = 0 /\ p.pos_y = 0) =>
              /\ \A i \in DOMAIN qgeometry :
                    qgeometry[i].geom = qgeometry[i].local
              /\ \A i \in DOMAIN pins :
                    pins[i].points = << Fix(LocalPinPoints(pins[i].name)[1]),
                                        Fix(LocalPinPoints(pins[i].name)[2]) >>

C9_Witness ==
    /\ cls = "FluxoniumPocket"
    /\ p.orientation = 0
    /\ p.pos_x # 0 /\ p.pos_y # 0 /\ p.pos_x # p.pos_y
    /\ FirstPassDone
    /\ Len(pins) = 3

(***************************************************************************)
(* C10: for each FluxoniumPocket pin, whenever width >= pocket_width,      *)
(* height/2 >= pocket_height/2 + cl_sep and height/2 >= pad_height +       *)
(* pocket_height/2 + pad_sep + pad_gap, the second stored point is farther *)
(* from the component's origin than the first, for every orientation and   *)
(* position.  With equality the two points coincide; the statement holds   *)
(* with the three inequalities strict.                                     *)
(***************************************************************************)
SecondPointFarther ==
    \A i \in DOMAIN pins :
        Dist2(p, pins[i].points[2]) > Dist2(p, pins[i].points[1])

C10_OutwardOriginal ==
    ( /\ cls = "FluxoniumPocket"
      /\ p.width >= p.pocket_width
      /\ p.height \div 2 >= p.pocket_height \div 2 + p.charge_line_options.cl_sep
      /\ p.height \div 2 >= p.readout_line_options.pad_height
                              + p.pocket_height \div 2
                              + p.readout_line_options.pad_sep
                              + p.readout_line_options.pad_gap )
        => SecondPointFarther

C10_OutwardStrict ==
    ( /\ cls = "FluxoniumPocket"
      /\ p.width > p.pocket_width
      /\ p.height \div 2 > p.pocket_height \div 2 + p.charge_line_options.cl_sep
      /\ p.height \div 2 > p.readout_line_options.pad_height
                             + p.pocket_height \div 2
                             + p.readout_line_options.pad_sep
                             + p.readout_line_options.pad_gap )
        => SecondPointFarther

C10_Witness ==
    /\ cls = "FluxoniumPocket"
    /\ p.width > p.pocket_width
    /\ p.height \div 2 > p.readout_line_options.pad_height
                           + p.pocket_height \div 2
                           + p.readout_line_options.pad_sep
                           + p.readout_line_options.pad_gap
    /\ p.orientation = 90
    /\ p.pos_x # 0
    /\ FirstPassDone
    /\ Len(pins) = 3

(***************************************************************************)
(* C11: every row registered under the category junction carries both a    *)
(* width and an hfss_inductance, and every row registered under the        *)
(* category path carries both a width and a subtract flag, whichever       *)
(* component registered it.  Tmon and JunctionArray register their         *)
(* junctions without an hfss_inductance.                                   *)
(***************************************************************************)
C11_JunctionAndPathAttributes ==
    /\ \A i \in Rows("junction") :
           {"width", "hfss_inductance"} \subseteq qgeometry[i].kw
    /\ \A i \in Rows("path") :
           {"width", "subtract"} \subseteq qgeometry[i].kw

(***************************************************************************)
(* C12: every add_pin call gives a name, exactly two end points, a width   *)
(* and an explicit input_as_norm flag, in FluxoniumPocket and in Tmon.     *)
(* Tmon's call gives no input_as_norm.                                     *)
(***************************************************************************)
C12_PinCallComplete ==
    \A i \in DOMAIN pins :
        /\ pins[i].name # ""
        /\ Len(pins[i].points) = 2
        /\ {"points", "width", "input_as_norm"} \subseteq pins[i].kw

(***************************************************************************)
(* C13: a make call either runs every enabled sub-step to completion or    *)
(* raises exactly once: the error of the sub-step or host call is the one  *)
(* make ends with, and nothing is registered after it.                     *)
(***************************************************************************)
\* the rows one complete make call of component class c with options o
\* registers
MakeRows(c, o) ==
    CASE c = "FluxoniumPocket" ->
             pocket_rows(o)
             \o (IF o.flux_bias_line_options.make_fbl
                 THEN fbl_rows(o) ELSE <<>>)
             \o (IF o.charge_line_options.make_cl THEN cl_rows(o) ELSE <<>>)
             \o (IF o.readout_line_options.make_rol THEN ro_rows(o) ELSE <<>>)
      [] c = "Tmon" ->
             tmon_rows(o)
             \o (IF o.flux_bias_line_options.make_fbl
                 THEN tmon_fbl_rows(o) ELSE <<>>)
      [] c = "Frame" -> frame_rows(o)
      [] c = "Markers" -> markers_rows(o)
      [] c = "JunctionArray" -> jj_loop(o, 0, 0) \o ground_rows(o)

\* the names of the pins one complete make call registers, in order
MakePins(c, o) ==
    CASE c = "FluxoniumPocket" ->
             (IF o.flux_bias_line_options.make_fbl
              THEN <<"Flux bias line">> ELSE <<>>)
             \o (IF o.charge_line_options.make_cl
                 THEN <<"Charge line">> ELSE <<>>)
             \o (IF o.readout_line_options.make_rol
                 THEN <<"Readout line">> ELSE <<>>)
      [] c = "Tmon" ->
             IF o.flux_bias_line_options.make_fbl
             THEN <<"flux_bias_line">> ELSE <<>>
      [] OTHER -> <<>>

RECURSIVE Repeat(_, _)
Repeat(rows, n) == IF n = 0 THEN <<>> ELSE rows \o Repeat(rows, n - 1)

\* the rectangle calls of the sub-step about to run
StepRectangles ==
    CASE cls = "FluxoniumPocket" /\ pc = "make_pocket" -> pocket_rectangles(p)
      [] cls = "FluxoniumPocket" /\ pc = "make_readout_line"
           /\ p.readout_line_options.make_rol -> ro_rectangles(p)
      [] cls = "Tmon" /\ pc = "make_pocket" -> tmon_rectangles(p)
      [] cls = "Tmon" /\ pc = "make_flux_bias_line"
           /\ p.flux_bias_line_options.make_fbl -> tmon_fbl_rectangles(p)
      [] cls = "Frame" /\ pc = "make" -> frame_rectangles(p)
      [] cls = "Markers" /\ pc = "make" -> markers_rectangles(p)
      [] OTHER -> <<>>

C13_CompletesOrRaisesOnce ==
    [][ /\ (err' # "none") <=> (pc' = "raised")
        \* nothing is registered once make has raised
        /\ err # "none" => (qgeometry' = qgeometry /\ pins' = pins)
        \* the error make ends with is the one the host call raised
        /\ (err = "none" /\ err' # "none") =>
              \/ err' = "ConfigurationError"
                   /\ RectangleRejected(StepRectangles)
              \/ err' = "DuplicatePinError"
                   /\ \E i \in DOMAIN OwnPins : OwnPins[i].name = PinOfStep
        \* a make call that returns has run every enabled sub-step
        /\ pc' = "done" =>
              /\ SubSeq(qgeometry', prior.rows + 1, Len(qgeometry'))
                   = Repeat(MakeRows(cls, p), makes')
              /\ Len(pins') - prior.pins = Len(MakePins(cls, p))
              /\ \A i \in DOMAIN MakePins(cls, p) :
                     pins'[prior.pins + i].name = MakePins(cls, p)[i]
      ]_vars

\* make has raised in a sub-step that comes after one that registered rows
C13_Witness ==
    /\ pc = "raised"
    /\ err = "DuplicatePinError"
    /\ cls = "FluxoniumPocket"
    /\ p.flux_bias_line_options.make_fbl
    /\ p.charge_line_options.make_cl
    /\ Len(qgeometry) > Len(MakeRows(cls, p))

(***************************************************************************)
(* C14: a primitive with a non-positive width or height is rejected with a *)
(* ConfigurationError before anything is registered: make_pocket with      *)
(* pad_height <= pad_radius, or any component given a zero or negative     *)
(* length option, raises ConfigurationError and registers no geometry.     *)
(* No component checks its options: a zero fbl_sep goes through make       *)
(* unnoticed, and a zero readout pad width is noticed by the rectangle     *)
(* builder only after make_pocket has registered its rows.                 *)
(***************************************************************************)
\* the component was given a length option that is zero or negative, or a
\* pad no longer than its circle's radius
NonPositiveLength ==
    \/ /\ cls = "FluxoniumPocket"
       /\ \/ p.pad_height <= p.pad_radius
          \/ p.flux_bias_line_options.fbl_sep <= 0
          \/ p.readout_line_options.pad_width <= 0
    \/ /\ cls = "Frame"
       /\ p.f_width <= 0

C14_NonPositiveRejected ==
    (NonPositiveLength /\ pc \in {"done", "raised"}) =>
        /\ err = "ConfigurationError"
        /\ Len(qgeometry) = prior.rows

(***************************************************************************)
(* C15: in FluxoniumPocket.make_pocket the geometry of the inductor wire   *)
(* does not depend on L_tot: two builds that differ only in l_inductance   *)
(* or l_ind_per_square register identical meander mounts, fillets and      *)
(* inductor line; only the inductor row's hfss_inductance differs.         *)
(* In the code the mounts, the fillets and the ends of the inductor line   *)
(* all sit at y = +-L_tot/2, so the shapes follow L_tot.                   *)
(***************************************************************************)
\* the <<l_inductance, l_ind_per_square>> pairs a second build is given
InductanceValues == { <<8, 2>>, <<16, 4>>, <<16, 2>> }

\* the options of the second build: the first one's, but for the pair
OtherBuild(v) == [p EXCEPT !.l_inductance = v[1], !.l_ind_per_square = v[2]]

WireNames == {"poly_wire_top", "poly_wire_bot", "inductor"}

\* make_pocket has registered its rows for the first time
PocketRegistered ==
    /\ cls = "FluxoniumPocket"
    /\ makes = 1
    /\ pc \in {"make_flux_bias_line", "make_charge_line",
               "make_readout_line", "done"}

\* row k of make_pocket holds the same shape in this build and in the
\* build with options o
SameShape(k, o) == qgeometry[prior.rows + k].geom = pocket_rows(o)[k].geom

\* the two pairs give the same L_tot (the widths are the same)
SameLength(v) == p.l_inductance * v[2] = v[1] * p.l_ind_per_square

C15_ShapesIgnoreInductance ==
    PocketRegistered =>
        \A v \in InductanceValues : \A k \in 1..7 :
            qgeometry[prior.rows + k].name \in WireNames =>
                SameShape(k, OtherBuild(v))

\* amended: the shapes are the same exactly when L_tot is the same; the
\* shapes that are not part of the inductor wire never differ, and the
\* inductor row's hfss_inductance follows l_inductance alone
C15_ShapesFollowLength ==
    PocketRegistered =>
        \A v \in InductanceValues : \A k \in 1..7 :
            LET e == qgeometry[prior.rows + k]
            IN  /\ e.name \in WireNames =>
                       (SameShape(k, OtherBuild(v)) <=> SameLength(v))
                /\ e.name \notin WireNames => SameShape(k, OtherBuild(v))
                /\ e.name = "inductor" =>
                       ((e.hfss_inductance
                           = pocket_rows(OtherBuild(v))[k].hfss_inductance)
                        <=> p.l_inductance = v[1])

\* a build that has a second build of the same L_tot and another
\* l_inductance, and a second build of another L_tot
C15_Witness ==
    /\ PocketRegistered
    /\ p.l_inductance = 16
    /\ p.l_ind_per_square = 4
    /\ \E k \in 1..7 : qgeometry[prior.rows + k].name = "inductor"

(***************************************************************************)
(* C16: the host's geometry and pin tables are an append-only sink: over   *)
(* any sequence of make calls on any components, a make call only adds     *)
(* entries under its own component, never removes, renames or alters an    *)
(* entry registered earlier (by itself or by another component), and never *)
(* reads an entry back.                                                    *)
(***************************************************************************)
\* the rows the sub-step about to run hands to add_qgeometry, from the
\* component's options alone
StepRows ==
    CASE cls = "FluxoniumPocket" /\ pc = "make_pocket" -> pocket_rows(p)
      [] cls = "FluxoniumPocket" /\ pc = "make_flux_bias_line"
           /\ p.flux_bias_line_options.make_fbl -> fbl_rows(p)
      [] cls = "FluxoniumPocket" /\ pc = "make_charge_line"
           /\ p.charge_line_options.make_cl -> cl_rows(p)
      [] cls = "FluxoniumPocket" /\ pc = "make_readout_line"
           /\ p.readout_line_options.make_rol -> ro_rows(p)
      [] cls = "Tmon" /\ pc = "make_pocket" -> tmon_rows(p)
      [] cls = "Tmon" /\ pc = "make_flux_bias_line"
           /\ p.flux_bias_line_options.make_fbl -> tmon_fbl_rows(p)
      [] cls = "Frame" /\ pc = "make" -> frame_rows(p)
      [] cls = "Markers" /\ pc = "make" -> markers_rows(p)
      [] cls = "JunctionArray" /\ pc = "make_jj_array" -> jj_loop(p, 0, 0)
      [] cls = "JunctionArray" /\ pc = "make_buffer_ground" -> ground_rows(p)
      [] OTHER -> <<>>

C16_AppendOnlySink ==
    [][ \* every earlier entry is where it was and what it was
        /\ Len(qgeometry') >= Len(qgeometry)
        /\ SubSeq(qgeometry', 1, Len(qgeometry)) = qgeometry
        /\ Len(pins') >= Len(pins)
        /\ SubSeq(pins', 1, Len(pins)) = pins
        \* what is added lies behind the entries of the earlier components
        /\ Len(qgeometry) >= prior.rows /\ Len(pins) >= prior.pins
        \* what is added is settled by the options, whatever the tables hold
        /\ SubSeq(qgeometry', Len(qgeometry) + 1, Len(qgeometry'))
             \in {<<>>, StepRows}
        /\ Len(pins') > Len(pins) =>
              /\ Len(pins') = Len(pins) + 1
              /\ pins'[Len(pins')].name = PinOfStep
      ]_vars

\* a second component has registered rows and a pin behind the rows and
\* pins of the first
C16_Witness ==
    /\ prior.comps = 1
    /\ prior.rows > 0
    /\ prior.pins > 0
    /\ Len(qgeometry) > prior.rows
    /\ Len(pins) > prior.pins
    /\ makes = 2

(***************************************************************************)
(* C17: in FluxoniumPocket at orientation 0, whenever pad_height >=         *)
(* 2*pad_radius, the distance along y between pad_top and pad_bot is        *)
(* pad_gap, pad_bot is pad_top rotated by 180 degrees about the component's *)
(* origin, and rect_jj has length pad_gap with its end points              *)
(* (0, -pad_gap/2) and (0, +pad_gap/2) on the facing edges of pad_bot and  *)
(* pad_top.  Coordinates are taken from (pos_x, pos_y).                    *)
(***************************************************************************)
\* the bounding box of a rectangle or of a disc
PartBox(s) ==
    IF s.op = "Disc"
    THEN << s.pts[1][1] - s.r, s.pts[1][2] - s.r,
            s.pts[1][1] + s.r, s.pts[1][2] + s.r >>
    ELSE BBox(s)

\* the bounding box of a union of rectangles and discs
UnionBox(s) ==
    LET boxes == {PartBox(s.args[i]) : i \in DOMAIN s.args}
    IN  << MinOf({b[1] : b \in boxes}), MinOf({b[2] : b \in boxes}),
           MaxOf({b[3] : b \in boxes}), MaxOf({b[4] : b \in boxes}) >>

\* the shape the first make_pocket registered under name, seen from the
\* component's position
PocketShape(name) ==
    LET k == CHOOSE i \in 1..7 : qgeometry[prior.rows + i].name = name
    IN  translate(qgeometry[prior.rows + k].geom, -p.pos_x, -p.pos_y)

\* point pt lies on the horizontal edge at height y of a rectangle of s
OnHorizontalEdge(pt, s, y) ==
    /\ pt[2] = y
    /\ \E i \in DOMAIN s.args :
           /\ s.args[i].op = "Polygon"
           /\ y \in {BBox(s.args[i])[2], BBox(s.args[i])[4]}
           /\ BBox(s.args[i])[1] <= pt[1]
           /\ pt[1] <= BBox(s.args[i])[3]

C17_PadsAndJunction ==
    (PocketRegistered /\ p.orientation = 0
       /\ p.pad_height >= 2 * p.pad_radius) =>
        LET top == PocketShape("pad_top")
            bot == PocketShape("pad_bot")
            jj == PocketShape("rect_jj")
        IN  /\ UnionBox(top)[2] - UnionBox(bot)[4] = p.pad_gap
            /\ bot = rotate(top, 180)
            /\ jj.pts = << <<0, -(p.pad_gap \div 2)>>,
                           <<0, p.pad_gap \div 2>> >>
            /\ jj.pts[2][2] - jj.pts[1][2] = p.pad_gap
            /\ OnHorizontalEdge(jj.pts[1], bot, UnionBox(bot)[4])
            /\ OnHorizontalEdge(jj.pts[2], top, UnionBox(top)[2])

\* the pocket of a component that is not at the design's origin
C17_Witness ==
    /\ PocketRegistered
    /\ p.orientation = 0
    /\ p.pad_height >= 2 * p.pad_radius
    /\ p.pos_x = 6
    /\ UnionBox(PocketShape("pad_top"))[2] = p.pad_gap \div 2

(***************************************************************************)
(* C18: in FluxoniumPocket with make_fbl=True at orientation 0, the        *)
(* edge-to-edge separation along x between the inductor wire (the junction *)
(* line inductor, of width l_width) and the vertical segment of the flux   *)
(* bias line (a path of width cpw_width) equals fbl_sep, for every         *)
(* l_fillet, l_arm_length and pad_width.  In the code the inductor stands  *)
(* l_fillet further out than the arm's end the line is measured from, so   *)
(* the separation is fbl_sep - l_fillet.                                   *)
(***************************************************************************)
\* the first make pass has registered the flux bias line
FblRegistered ==
    /\ cls = "FluxoniumPocket"
    /\ makes = 1
    /\ p.flux_bias_line_options.make_fbl
    /\ pc \in {"make_charge_line", "make_readout_line", "done"}

\* twice the separation along x between the right edge of the inductor
\* wire and the left edge of the flux bias line's vertical segment
FblSeparation2 ==
    LET ind == qgeometry[CHOOSE i \in prior.rows + 1 .. prior.rows + 7 :
                             qgeometry[i].name = "inductor"]
        fbl == qgeometry[prior.rows + 8]
        v == CHOOSE i \in 1 .. Len(fbl.geom.pts) - 1 :
                 /\ fbl.geom.pts[i][1] = fbl.geom.pts[i + 1][1]
                 /\ fbl.geom.pts[i][2] # fbl.geom.pts[i + 1][2]
    IN  (2 * fbl.geom.pts[v][1] - fbl.width)
          - (2 * ind.geom.pts[1][1] + ind.width)

C18_FblSeparation ==
    (FblRegistered /\ p.orientation = 0) =>
        FblSeparation2 = 2 * p.flux_bias_line_options.fbl_sep

(***************************************************************************)
(* C19: in FluxoniumPocket with make_cl=True at orientation 0, the         *)
(* subtracted region cl_gap contains the charge line's conductor cl and    *)
(* leaves a gap of width cpw_gap on each side (left and right in x) of the *)
(* conductor, the same width as beyond the conductor's inner end in y.     *)
(* In the code cl_gap reaches cpw_gap/2 beyond each side of the conductor  *)
(* and cpw_gap beyond its inner end.                                       *)
(***************************************************************************)
\* the first make pass has registered the charge line
ClRegistered ==
    /\ cls = "FluxoniumPocket"
    /\ makes = 1
    /\ p.charge_line_options.make_cl
    /\ pc \in {"make_readout_line", "done"}

\* the bounding box of the row the component registered under name
OwnBox(name) ==
    BBox(qgeometry[CHOOSE i \in prior.rows + 1 .. Len(qgeometry) :
                       qgeometry[i].name = name].geom)

\* the widths of the gap: left of, right of, and beyond the inner end of
\* the conductor
ClGaps ==
    LET cl == OwnBox("cl")
        gap == OwnBox("cl_gap")
    IN  [left |-> cl[1] - gap[1], right |-> gap[3] - cl[3],
         inner |-> cl[2] - gap[2], outer |-> gap[4] - cl[4]]

C19_ChargeLineGap ==
    (ClRegistered /\ p.orientation = 0) =>
        /\ ClGaps.left = p.charge_line_options.cpw_gap
        /\ ClGaps.right = p.charge_line_options.cpw_gap
        /\ ClGaps.inner = p.charge_line_options.cpw_gap
        /\ ClGaps.outer >= 0

(***************************************************************************)
(* C20: in Tmon.make_pocket the two circles at the ends of the equator arm *)
(* (pad_palm_left, pad_palm_right), centred at (-pad_arm_length/2, 0) and  *)
(* (+pad_arm_length/2, 0), have radius palm_radius.  The code draws them   *)
(* with radius palm_radius/2.                                              *)
(***************************************************************************)
\* the discs of the registered tmon shape, in the local frame
TmonPalms ==
    LET tmon == qgeometry[CHOOSE i \in prior.rows + 1 .. Len(qgeometry) :
                              qgeometry[i].name = "tmon"].local
    IN  {tmon.args[i] : i \in {j \in DOMAIN tmon.args :
                                  tmon.args[j].op = "Disc"}}

C20_PalmRadius ==
    (cls = "Tmon" /\ makes = 1 /\ pc \in {"make_flux_bias_line", "done"}) =>
        /\ {d.pts[1] : d \in TmonPalms}
             = { << -(p.pad_arm_length \div 2), 0 >>,
                 << p.pad_arm_length \div 2, 0 >> }
        /\ \A d \in TmonPalms : d.r = p.palm_radius

(***************************************************************************)
(* C21: for Markers, for every orientation and every (pos_x, pos_y), the   *)
(* centre of the four markers and of the markers_pk cutout in the final    *)
(* frame is (pos_x, pos_y), with the markers at (+-marker_sep,             *)
(* +-marker_sep) around that centre rotated by orientation.  The code      *)
(* builds the shapes about (pos/2), rotates them about (0,0) and shifts    *)
(* them by (pos/2): the centre is (pos_x, pos_y) at orientation 0 only.    *)
(***************************************************************************)
\* twice the four centres that lie (+-marker_sep, +-marker_sep), rotated
\* by the orientation, around (pos_x, pos_y)
MarkerCentresAbout2 ==
    { << 2 * p.pos_x + 2 * r[1], 2 * p.pos_y + 2 * r[2] >> :
        r \in { RotatePoint(<< sx * p.marker_sep, sy * p.marker_sep >>,
                            p.orientation) : sx \in {-1, 1}, sy \in {-1, 1} } }

\* the rows of the first Markers.make are in the table
MarkersRegistered == cls = "Markers" /\ makes = 1 /\ pc = "done"

C21_MarkersCentre ==
    MarkersRegistered =>
        LET markers == qgeometry[prior.rows + 1].geom
            markers_pk == qgeometry[prior.rows + 2].geom
        IN  /\ Centre2(markers_pk) = << 2 * p.pos_x, 2 * p.pos_y >>
            /\ {Centre2(markers.args[k]) : k \in DOMAIN markers.args}
                 = MarkerCentresAbout2

(***************************************************************************)
(* C22: for Frame, for every frame_w, frame_h and f_width, the left and    *)
(* right border rectangles are centred at x = +-frame_w/2 and the top and  *)
(* bottom ones at y = +-frame_h/2, so the four borders join into one       *)
(* closed rectangular frame of width frame_w and height frame_h.  The code *)
(* centres the borders at the literal +-4.5 whatever the options are.      *)
(***************************************************************************)
\* the row of the first Frame.make is in the table
FrameRegistered == cls = "Frame" /\ makes = 1 /\ pc = "done"

\* the border rectangles of the registered frame, in the local frame
FrameBorders ==
    LET frame == qgeometry[prior.rows + 1].local
    IN  {frame.args[k] : k \in DOMAIN frame.args}

\* b is f_width wide and frame_h high
IsUpright(b) ==
    /\ BBox(b)[3] - BBox(b)[1] = p.f_width
    /\ BBox(b)[4] - BBox(b)[2] = p.frame_h

C22_FrameBordersAtHalfSize ==
    FrameRegistered =>
        /\ {Centre2(b) : b \in {c \in FrameBorders : IsUpright(c)}}
             = { << -p.frame_w, 0 >>, << p.frame_w, 0 >> }
        /\ {Centre2(b) : b \in {c \in FrameBorders : ~IsUpright(c)}}
             = { << 0, -p.frame_h >>, << 0, p.frame_h >> }

(***************************************************************************)
(* C23: in FluxoniumPocket.make and Tmon.make, make_pocket always runs     *)
(* first and unconditionally; then the optional sub-steps run in the fixed *)
(* order flux bias line, charge line, readout line, each if and only if    *)
(* its flag (make_fbl, make_cl, make_rol) is True; so the pins a make call *)
(* that returns has registered are exactly those whose flag is True, and   *)
(* with all flags False no pin and no path row is registered.              *)
(***************************************************************************)
\* the position that follows position s in make, for component class c
StepAfter(c, s) ==
    CASE s = "make_pocket" -> "make_flux_bias_line"
      [] s = "make_flux_bias_line" /\ c = "FluxoniumPocket" ->
             "make_charge_line"
      [] s = "make_flux_bias_line" /\ c = "Tmon" -> "done"
      [] s = "make_charge_line" -> "make_readout_line"
      [] s = "make_readout_line" -> "done"

\* the flag that guards the sub-step at position s
FlagOf(s) ==
    CASE s = "make_pocket" -> TRUE
      [] s = "make_flux_bias_line" -> p.flux_bias_line_options.make_fbl
      [] s = "make_charge_line" -> p.charge_line_options.make_cl
      [] s = "make_readout_line" -> p.readout_line_options.make_rol

SubSteps == {"make_pocket", "make_flux_bias_line", "make_charge_line",
             "make_readout_line"}

\* what a step of make keeps to
SubStepOrderKept ==
    cls \in {"FluxoniumPocket", "Tmon"} =>
          \* a make call starts with make_pocket
          /\ pc \notin SubSteps => pc' = "make_pocket"
          \* the sub-steps follow each other in the one order
          /\ pc \in SubSteps => pc' \in {StepAfter(cls, pc), "raised"}
          \* a sub-step does something exactly when its flag is True
          /\ pc \in SubSteps =>
                ((qgeometry' # qgeometry \/ pins' # pins \/ err' # "none")
                   <=> FlagOf(pc))
          \* make_pocket registers its rows whatever the flags are
          /\ (pc = "make_pocket" /\ err' = "none") =>
                Len(qgeometry') > Len(qgeometry)
          \* the pins of a make call that has returned
          /\ (pc' = "done" /\ makes' = 1) =>
                /\ [i \in 1 .. Len(pins') - prior.pins |->
                       pins'[prior.pins + i].name] = MakePins(cls, p)
                /\ MakePins(cls, p) = <<>> =>
                      \A i \in prior.rows + 1 .. Len(qgeometry') :
                          qgeometry'[i].kind # "path"

C23_SubStepOrder == [][SubStepOrderKept]_vars

\* a FluxoniumPocket.make that skipped the charge line between the two
\* other lines has returned
C23_Witness ==
    /\ cls = "FluxoniumPocket"
    /\ FirstPassDone
    /\ p.flux_bias_line_options.make_fbl
    /\ ~p.charge_line_options.make_cl
    /\ p.readout_line_options.make_rol
    /\ Len(pins) = 2
    /\ pins[1].name = "Flux bias line"
    /\ pins[2].name = "Readout line"

(***************************************************************************)
(* C24: for every n = array_unit.n_junction >= 0, JunctionArray.make       *)
(* registers exactly n+1 poly pads named jj_pad_0 .. jj_pad_n, exactly n   *)
(* junction rows named rect_jj_0 .. rect_jj_(n-1), junction i with         *)
(* gds_cell_name FakeJunction_0(i+1), and exactly one subtract poly        *)
(* ground_etch; pad i is pad 0 shifted by exactly i*(array_pad_y +         *)
(* array_gap_y): no iteration changes the base shapes.                     *)
(***************************************************************************)
\* the first JunctionArray.make has returned
ArrayRegistered == cls = "JunctionArray" /\ makes = 1 /\ pc = "done"

\* the indices of the component's rows
OwnRows == prior.rows + 1 .. Len(qgeometry)

\* the component's rows registered under name
OwnNamed(name) == {i \in OwnRows : qgeometry[i].name = name}

\* the one row the component registered under name
OwnRow(name) == qgeometry[CHOOSE i \in OwnRows : qgeometry[i].name = name]

\* the distance between the same edges of two neighbouring pads
PadPitch == p.array_unit.array_pad_y + p.array_unit.array_gap_y

C24_ArrayRows ==
    ArrayRegistered =>
        LET n == p.array_unit.n_junction
            pads == {i \in OwnRows : /\ qgeometry[i].kind = "poly"
                                     /\ ~qgeometry[i].subtract}
            etches == {i \in OwnRows : /\ qgeometry[i].kind = "poly"
                                       /\ qgeometry[i].subtract}
            juncs == {i \in OwnRows : qgeometry[i].kind = "junction"}
        IN  /\ Cardinality(pads) = n + 1
            /\ {qgeometry[i].name : i \in pads}
                 = {"jj_pad_" \o ToString(k) : k \in 0..n}
            /\ Cardinality(juncs) = n
            /\ {qgeometry[i].name : i \in juncs}
                 = {"rect_jj_" \o ToString(k) : k \in 0 .. n - 1}
            /\ \A k \in 0 .. n - 1 :
                   OwnRow("rect_jj_" \o ToString(k)).gds_cell_name
                     = "FakeJunction_0" \o ToString(k + 1)
            /\ Cardinality(etches) = 1
            /\ {qgeometry[i].name : i \in etches} = {"ground_etch"}
            /\ Cardinality(OwnRows) = 2 * n + 2
            /\ \A k \in 0..n :
                   OwnRow("jj_pad_" \o ToString(k)).geom
                     = translate(OwnRow("jj_pad_0").geom, 0, k * PadPitch)

\* an array of the most junctions tried has been made
C24_Witness ==
    /\ ArrayRegistered
    /\ p.array_unit.n_junction = MaxJunctions
    /\ OwnNamed("jj_pad_" \o ToString(MaxJunctions)) # {}
    /\ OwnNamed("rect_jj_" \o ToString(MaxJunctions - 1)) # {}

(***************************************************************************)
(* C25: in JunctionArray, for every orientation and every (pos_x, pos_y),  *)
(* junction i (0 <= i < n_junction) has length array_gap_y and its two end *)
(* points lie on the facing edges of pad i and pad i+1: the pads and the   *)
(* junctions keep the relative geometry they have at orientation 0.  The   *)
(* code shifts the pads along the design's y axis after it has rotated     *)
(* them, and the junctions along the array's own axis before it rotates    *)
(* them.                                                                   *)
(***************************************************************************)
\* point pt lies on the outline of the rectangle s
OnOutline(pt, s) ==
    LET b == BBox(s)
    IN  /\ b[1] <= pt[1] /\ pt[1] <= b[3]
        /\ b[2] <= pt[2] /\ pt[2] <= b[4]
        /\ pt[1] \in {b[1], b[3]} \/ pt[2] \in {b[2], b[4]}

\* the length of a line between two points that runs along an axis
AxisLength(a, b) ==
    IF a[1] = b[1]
    THEN (IF a[2] <= b[2] THEN b[2] - a[2] ELSE a[2] - b[2])
    ELSE (IF a[1] <= b[1] THEN b[1] - a[1] ELSE a[1] - b[1])

\* junction k joins pad k and pad k+1
JunctionJoins(k) ==
    LET jj == OwnRow("rect_jj_" \o ToString(k)).geom
    IN  /\ jj.pts[1][1] = jj.pts[2][1] \/ jj.pts[1][2] = jj.pts[2][2]
        /\ AxisLength(jj.pts[1], jj.pts[2]) = p.array_unit.array_gap_y
        /\ OnOutline(jj.pts[1], OwnRow("jj_pad_" \o ToString(k)).geom)
        /\ OnOutline(jj.pts[2], OwnRow("jj_pad_" \o ToString(k + 1)).geom)

C25_JunctionsJoinPads ==
    ArrayRegistered =>
        \A k \in 0 .. p.array_unit.n_junction - 1 : JunctionJoins(k)

(***************************************************************************)
(* C26: in JunctionArray at orientation 0, for every n_junction >= 0, the  *)
(* subtracted ground_etch rectangle contains every pad jj_pad_0 ..         *)
(* jj_pad_n and every junction, with a margin of exactly ground_gap_x left *)
(* and right of the pads and exactly ground_gap_y below the first pad and  *)
(* above the last pad.                                                     *)
(***************************************************************************)
\* the bounding box b lies inside the bounding box e
BoxInside(b, e) ==
    /\ e[1] <= b[1] /\ b[3] <= e[3]
    /\ e[2] <= b[2] /\ b[4] <= e[4]

C26_GroundEtchMargins ==
    (ArrayRegistered /\ p.orientation = 0) =>
        LET n == p.array_unit.n_junction
            etch == BBox(OwnRow("ground_etch").geom)
            pad(k) == BBox(OwnRow("jj_pad_" \o ToString(k)).geom)
            jj(k) == BBox(OwnRow("rect_jj_" \o ToString(k)).geom)
        IN  /\ \A k \in 0..n : BoxInside(pad(k), etch)
            /\ \A k \in 0 .. n - 1 : BoxInside(jj(k), etch)
            /\ \A k \in 0..n :
                   /\ pad(k)[1] - etch[1] = p.ground_gap_x
                   /\ etch[3] - pad(k)[3] = p.ground_gap_x
            /\ pad(0)[2] - etch[2] = p.ground_gap_y
            /\ etch[4] - pad(n)[4] = p.ground_gap_y
            /\ \A k \in 0..n : pad(0)[2] <= pad(k)[2] /\ pad(k)[4] <= pad(n)[4]

\* an array of the most junctions tried, away from the design's origin
C26_Witness ==
    /\ ArrayRegistered
    /\ p.orientation = 0
    /\ p.array_unit.n_junction = MaxJunctions
    /\ p.pos_x = 6
    /\ BBox(OwnRow("ground_etch").geom)[4] - BBox(OwnRow("ground_etch").geom)[2]
         > (MaxJunctions + 1) * p.array_unit.array_pad_y
             + 2 * p.ground_gap_y

====
